---- MODULE Spec2Model ----
(***************************************************************************)
(* A model of Ollacode's context memory: MemoryManager (the hot cache      *)
(* ramChunks, its trim, its localStorage persistence and its autosave      *)
(* timer) and MemoryContextProcessor (chatHistory, pinnedItems, pruning).  *)
(*                                                                         *)
(* Text is a sequence of one-character strings, so that length, lowercase, *)
(* whitespace splitting and substring search are computed as the code      *)
(* computes them.  Scores are integers: importance and recency are held in *)
(* thousandths.  Time is a logical clock whose unit is 24 hours, the decay *)
(* constant of calculateRecencyScore.                                      *)
(***************************************************************************)
EXTENDS Integers, Sequences, FiniteSets, TLC

VARIABLES
  ramChunks,    \* MemoryManager.ramChunks: the Map, as a sequence in insertion order
  disk,         \* localStorage['memory_chunks']: NoData or a sequence of persisted records
  saveTimer,    \* MemoryManager.saveTimer # null
  trimQueue,    \* suspended trimRamChunks continuations (after "await saveToDisk"), oldest first
  now,          \* the clock (Date.now()), in units of 24 hours
  last,         \* the operation that completed last, with what it returned
  savedChunks   \* history: the chunks handed to the save that wrote disk (NoData if none did)

mmVars == <<ramChunks, disk, saveTimer, trimQueue, now, last, savedChunks>>

VARIABLES
  items,        \* the ContextItem objects of MemoryContextProcessor, by id
  chatHistory,  \* context.chatHistory: ids, in array order
  pinnedItems,  \* context.pinnedItems: ids, in array order
  nextId,       \* the number of ids generateId has produced
  mcpLast       \* the MemoryContextProcessor call that completed last, with what it returned

mcpVars == <<items, chatHistory, pinnedItems, nextId, mcpLast>>

VARIABLES
  isLoading,        \* ChatInterface: the isLoading state
  abortController,  \* OllamaService.abortController: "null" or "set"
  turn,             \* the handleSend call in progress: its position and its user message
  aborted,          \* a request of this session has been aborted
  orphanTimers      \* the running autosave timers of the MemoryManager objects that
                    \* re-renders constructed and useRef dropped

chatVars == <<isLoading, abortController, turn, aborted, orphanTimers>>

vars == <<mmVars, mcpVars, chatVars>>

-----------------------------------------------------------------------------
(* Bounds of the model *)

\* config.maxRamChunks (a constructor parameter; the default is 100)
maxRamChunks == 2
\* the clock stops advancing here
MaxTime == 1
\* getRelevantContext is not called once a chunk has been selected this often
MaxAccess == 1
\* longest batch handed to one addMessages call
MaxBatch == 3
\* MemoryContextProcessor.maxContextItems (100 in the source), scaled down
maxContextItems == 3
\* addContext is not called once generateId has produced this many ids
MaxItems == 5

\* localStorage.getItem returns null: nothing is stored under the key
NoData == [present |-> FALSE, records |-> <<>>]
Data(records) == [present |-> TRUE, records |-> records]

-----------------------------------------------------------------------------
(* Text *)

UpperToLower ==
  [A |-> "a", B |-> "b", C |-> "c", D |-> "d", E |-> "e", F |-> "f", G |-> "g",
   H |-> "h", I |-> "i", J |-> "j", K |-> "k", L |-> "l", M |-> "m", N |-> "n",
   O |-> "o", P |-> "p", Q |-> "q", R |-> "r", S |-> "s", T |-> "t", U |-> "u",
   V |-> "v", W |-> "w", X |-> "x", Y |-> "y", Z |-> "z"]

\* String.prototype.toLowerCase
toLowerCase(text) ==
  [i \in 1..Len(text) |->
     IF text[i] \in DOMAIN UpperToLower THEN UpperToLower[text[i]] ELSE text[i]]

\* the character of a code fence, written out because SANY cannot read it in a string
Backtick == "backtick"

IsSpace(ch) == ch \in {" ", "\n", "\t"}

\* String.prototype.split(/\s+/): a run of whitespace separates two words; leading
\* or trailing whitespace, and the empty string, give an empty word.
RECURSIVE SplitFrom(_, _, _, _)
SplitFrom(text, i, word, words) ==
  IF i > Len(text) THEN Append(words, word)
  ELSE IF IsSpace(text[i])
       THEN IF i > 1 /\ IsSpace(text[i - 1])
            THEN SplitFrom(text, i + 1, word, words)
            ELSE SplitFrom(text, i + 1, <<>>, Append(words, word))
       ELSE SplitFrom(text, i + 1, Append(word, text[i]), words)

splitWhitespace(text) == SplitFrom(text, 1, <<>>, <<>>)

\* String.prototype.includes
includes(text, word) ==
  \E i \in 1..(Len(text) - Len(word) + 1) : SubSeq(text, i, i + Len(word) - 1) = word

\* String.prototype.match(/#\w+/g): the hashtags of a text, without the '#'
IsWordChar(ch) ==
  \/ ch \in DOMAIN UpperToLower
  \/ ch \in {UpperToLower[u] : u \in DOMAIN UpperToLower}
  \/ ch \in {"0", "1", "2", "3", "4", "5", "6", "7", "8", "9", "_"}

RECURSIVE WordEnd(_, _)
WordEnd(text, i) ==
  IF i + 1 <= Len(text) /\ IsWordChar(text[i + 1]) THEN WordEnd(text, i + 1) ELSE i

RECURSIVE HashtagsFrom(_, _)
HashtagsFrom(text, i) ==
  IF i >= Len(text) THEN <<>>
  ELSE IF text[i] = "#" /\ IsWordChar(text[i + 1])
       THEN <<toLowerCase(SubSeq(text, i + 1, WordEnd(text, i)))>>
              \o HashtagsFrom(text, WordEnd(text, i) + 1)
       ELSE HashtagsFrom(text, i + 1)

-----------------------------------------------------------------------------
(* Pure functions of MemoryManager *)

\* MemoryManager.extractTags
extractTags(content) ==
  HashtagsFrom(content, 1)
    \o (IF includes(content, <<"h", "t", "t", "p", ":", "/", "/">>)
           \/ includes(content, <<"h", "t", "t", "p", "s", ":", "/", "/">>)
        THEN <<"web-search">> ELSE <<>>)
    \o (IF includes(content, <<Backtick, Backtick, Backtick>>) THEN <<"code">> ELSE <<>>)

Min(a, b) == IF a <= b THEN a ELSE b

\* MemoryManager.calculateImportance, in thousandths
calculateImportance(message) ==
  Min(500
        + (IF message.role = "user" THEN 200 ELSE 0)
        + (IF message.citations > 0 THEN 200 ELSE 0)
        + (IF message.files > 0 THEN 150 ELSE 0)
        + (IF Len(message.content) > 500 THEN 100 ELSE 0),
      1000)

\* round(1000 * exp(-d)) for d = 0, 1, 2, ... days
RecencyTable == <<1000, 368, 135, 50, 18, 7, 2, 1>>

\* MemoryManager.calculateRecencyScore, in thousandths
calculateRecencyScore(lastAccessed, t) ==
  IF t - lastAccessed < 0 THEN 2718   \* a date in the future: exp of a positive number
  ELSE IF t - lastAccessed + 1 <= Len(RecencyTable) THEN RecencyTable[t - lastAccessed + 1]
  ELSE 0

\* MemoryManager.estimateTokens: Math.ceil(text.length / 4)
estimateTokens(text) == (Len(text) + 3) \div 4

\* calculateRelevance's filter: the query words, by position, that count as matches
matchingWords(query, content) ==
  LET queryWords == splitWhitespace(toLowerCase(query))
      contentLower == toLowerCase(content)
  IN  {i \in 1..Len(queryWords) :
         Len(queryWords[i]) > 3 /\ includes(contentLower, queryWords[i])}

\* the retention score of trimRamChunks's comparator, times 10000
retentionScore(chunk, t) ==
  5 * chunk.importance + 5 * calculateRecencyScore(chunk.lastAccessed, t)

\* Array.prototype.sort is stable: s sorted by ascending key, equal keys in order
sortAscending(s, key) ==
  LET Rank(i) == 1 + Cardinality({j \in 1..Len(s) :
                       key[j] < key[i] \/ (key[j] = key[i] /\ j < i)})
  IN  [p \in 1..Len(s) |-> s[CHOOSE i \in 1..Len(s) : Rank(i) = p]]

RECURSIVE negated(_)
negated(key) == IF key = <<>> THEN <<>> ELSE <<0 - Head(key)>> \o negated(Tail(key))

\* the comparator b - a: descending key, equal keys in order
sortDescending(s, key) == sortAscending(s, negated(key))

Ids(chunks) == {chunks[i].id : i \in 1..Len(chunks)}

-----------------------------------------------------------------------------
(* Inputs *)

TextLatestNews == <<"l", "a", "t", "e", "s", "t", " ", "n", "e", "w", "s">>
TextNewsToday == <<"N", "e", "w", "s", " ", "t", "o", "d", "a", "y">>
TextLatest == <<"l", "a", "t", "e", "s", "t">>
TextLatestNewsAgain == <<"L", "a", "t", "e", "s", "t", " ", " ", "N", "E", "W", "S">>
TextTheNews == <<"t", "h", "e", " ", "n", "e", "w", "s">>
TextOk == <<"o", "k">>
TextEmpty == <<>>

\* chat.types.ts Message, with the counts of metadata.citations and metadata.files
NewMessage(id, role, content, citations, files) ==
  [id |-> id, role |-> role, content |-> content, timestamp |-> 0,
   citations |-> citations, files |-> files]

\* the messages a caller may hand to addMessages
Messages ==
  {NewMessage("1", "user", TextLatestNews, 0, 0),
   NewMessage("2", "assistant", TextEmpty, 0, 0),
   NewMessage("3", "assistant", TextNewsToday, 1, 0)}

RECURSIVE SeqsUpTo(_, _)
SeqsUpTo(S, n) ==
  IF n = 0 THEN {<<>>}
  ELSE SeqsUpTo(S, n - 1)
         \cup {Append(s, x) : s \in {q \in SeqsUpTo(S, n - 1) : Len(q) = n - 1}, x \in S}

\* batches: sequences of distinct messages
Batches ==
  {b \in SeqsUpTo(Messages, MaxBatch) : \A i, j \in 1..Len(b) : i # j => b[i] # b[j]}

SessionId == "s"

Queries == {TextLatestNews, TextLatest, TextEmpty}

\* the queries put to a store restored from an earlier session
StoredQueries == {TextTheNews, TextEmpty}

\* token budgets given to getRelevantContext
Budgets == {0 - 1, 0, 3, 1500}

-----------------------------------------------------------------------------
(* MemoryManager *)

\* every text of the model, and the text-level results computed once for each
Texts == {TextLatestNews, TextNewsToday, TextLatest, TextLatestNewsAgain, TextOk, TextEmpty}
tagsOf == [content \in Texts |-> extractTags(content)]
tokensOf == [content \in Texts |-> estimateTokens(content)]
matchesOf == [query \in Queries \cup StoredQueries |-> [content \in Texts |-> Cardinality(matchingWords(query, content))]]
wordsOf == [query \in Queries \cup StoredQueries |-> Len(splitWhitespace(toLowerCase(query)))]

\* MemoryManager.calculateRelevance, times 10000 * (number of query words):
\* 0.4 * matches / words + 0.4 * importance + 0.2 * recency
calculateRelevance(query, chunk, t) ==
  4000 * matchesOf[query][chunk.content]
    + wordsOf[query] * (4 * chunk.importance + 2 * calculateRecencyScore(chunk.lastAccessed, t))

\* the chunk addMessages builds from one message
newChunk(message, sessionId, t) ==
  [id |-> sessionId \o "-" \o message.id,
   content |-> message.content,
   metadata |-> [source |-> "chat", timestamp |-> message.timestamp,
                 sessionId |-> sessionId, tags |-> tagsOf[message.content]],
   importance |-> calculateImportance(message),
   accessCount |-> 0,
   lastAccessed |-> t]

\* Map.prototype.set: an existing key keeps its place
mapSet(chunks, chunk) ==
  IF \E i \in 1..Len(chunks) : chunks[i].id = chunk.id
  THEN LET i == CHOOSE k \in 1..Len(chunks) : chunks[k].id = chunk.id
       IN  [chunks EXCEPT ![i] = chunk]
  ELSE Append(chunks, chunk)

\* a bug: nothing is deleted
mapDeleteNothing(chunks, ids) == chunks

\* Map.prototype.delete, for each id of a set
mapDelete(chunks, ids) == SelectSeq(chunks, LAMBDA c : c.id \notin ids)

\* the loop of addMessages
RECURSIVE setAll(_, _, _, _)
setAll(chunks, messages, sessionId, t) ==
  IF messages = <<>> THEN chunks
  ELSE setAll(mapSet(chunks, newChunk(Head(messages), sessionId, t)),
              Tail(messages), sessionId, t)

\* trimRamChunks: sortedChunks.slice(0, sortedChunks.length - maxRamChunks), or
\* nothing when the early return is taken
RECURSIVE retentionScores(_, _)
retentionScores(chunks, t) ==
  IF chunks = <<>> THEN <<>>
  ELSE <<retentionScore(Head(chunks), t)>> \o retentionScores(Tail(chunks), t)

\* a bug: the slice takes the chunks from the top of the order
chunksToRemoveHighest(chunks, t) ==
  IF Len(chunks) <= maxRamChunks THEN <<>>
  ELSE SubSeq(sortAscending(chunks, retentionScores(chunks, t)),
              maxRamChunks + 1, Len(chunks))

\* a bug: the slice keeps one chunk too many
chunksToRemoveOffByOne(chunks, t) ==
  IF Len(chunks) <= maxRamChunks THEN <<>>
  ELSE SubSeq(sortAscending(chunks, retentionScores(chunks, t)),
              1, Len(chunks) - maxRamChunks - 1)

chunksToRemove(chunks, t) ==
  IF Len(chunks) <= maxRamChunks THEN <<>>
  ELSE SubSeq(sortAscending(chunks, retentionScores(chunks, t)),
              1, Len(chunks) - maxRamChunks)

\* Date.prototype.toJSON and new Date(string): the ISO string of a date, and back
toISOString(date) == [iso |-> date]
parseDate(string) == string.iso

\* JSON.stringify of one chunk
stringifyChunk(chunk) ==
  [id |-> chunk.id, content |-> chunk.content,
   metadata |-> [source |-> chunk.metadata.source,
                 timestamp |-> toISOString(chunk.metadata.timestamp),
                 sessionId |-> chunk.metadata.sessionId,
                 tags |-> chunk.metadata.tags],
   importance |-> chunk.importance, accessCount |-> chunk.accessCount,
   lastAccessed |-> toISOString(chunk.lastAccessed)]

\* saveToDisk: JSON.stringify(chunks) replaces the item; an exception is swallowed
RECURSIVE stringify(_)
stringify(chunks) ==
  IF chunks = <<>> THEN <<>> ELSE <<stringifyChunk(Head(chunks))>> \o stringify(Tail(chunks))

saveToDisk(chunks, ok, old) == IF ok THEN Data(stringify(chunks)) ELSE old

\* loadFromDisk's loop body: the dates restored
restoreChunk(record) ==
  [record EXCEPT !.lastAccessed = parseDate(record.lastAccessed),
                 !.metadata.timestamp = parseDate(record.metadata.timestamp)]

\* a bug: only the first record is loaded
loadRecordsFirstOnly(chunks, records) ==
  IF records = <<>> \/ "metadata" \notin DOMAIN Head(records) THEN chunks
  ELSE mapSet(chunks, restoreChunk(Head(records)))

\* loadFromDisk: the loop stops at the first record whose metadata is missing
\* (reading chunk.metadata.timestamp throws into the catch around the loop)
RECURSIVE loadRecords(_, _)
loadRecords(chunks, records) ==
  IF records = <<>> THEN chunks
  ELSE IF "metadata" \notin DOMAIN Head(records) THEN chunks
  ELSE loadRecords(mapSet(chunks, restoreChunk(Head(records))), Tail(records))

loadFromDisk(chunks, data) ==
  IF ~data.present THEN chunks ELSE loadRecords(chunks, data.records)

\* getRelevantContext: the chunks ranked by descending relevance
RECURSIVE relevanceScores(_, _, _)
relevanceScores(chunks, query, t) ==
  IF chunks = <<>> THEN <<>>
  ELSE <<calculateRelevance(query, Head(chunks), t)>> \o relevanceScores(Tail(chunks), query, t)

rankedChunks(chunks, query, t) == sortDescending(chunks, relevanceScores(chunks, query, t))

\* a bug: the test leaves out the tokens of the chunk being added
RECURSIVE selectFromUnchecked(_, _, _, _, _)
selectFromUnchecked(ranked, i, relevant, totalTokens, maxTokens) ==
  IF i > Len(ranked) THEN [ids |-> relevant, totalTokens |-> totalTokens]
  ELSE IF totalTokens <= maxTokens
       THEN selectFromUnchecked(ranked, i + 1, Append(relevant, ranked[i].id),
                                totalTokens + tokensOf[ranked[i].content], maxTokens)
       ELSE selectFromUnchecked(ranked, i + 1, relevant, totalTokens, maxTokens)

\* a bug: the loop ends at the first chunk that does not fit
RECURSIVE selectFromStopping(_, _, _, _, _)
selectFromStopping(ranked, i, relevant, totalTokens, maxTokens) ==
  IF i > Len(ranked) THEN [ids |-> relevant, totalTokens |-> totalTokens]
  ELSE IF totalTokens + tokensOf[ranked[i].content] <= maxTokens
       THEN selectFromStopping(ranked, i + 1, Append(relevant, ranked[i].id),
                               totalTokens + tokensOf[ranked[i].content], maxTokens)
       ELSE [ids |-> relevant, totalTokens |-> totalTokens]

\* a bug: the test is strict
RECURSIVE selectFromStrict(_, _, _, _, _)
selectFromStrict(ranked, i, relevant, totalTokens, maxTokens) ==
  IF i > Len(ranked) THEN [ids |-> relevant, totalTokens |-> totalTokens]
  ELSE IF totalTokens + tokensOf[ranked[i].content] < maxTokens
       THEN selectFromStrict(ranked, i + 1, Append(relevant, ranked[i].id),
                             totalTokens + tokensOf[ranked[i].content], maxTokens)
       ELSE selectFromStrict(ranked, i + 1, relevant, totalTokens, maxTokens)

\* getRelevantContext's selection loop: the ids taken, in ranking order, and the
\* running totalTokens
RECURSIVE selectFrom(_, _, _, _, _)
selectFrom(ranked, i, relevant, totalTokens, maxTokens) ==
  IF i > Len(ranked) THEN [ids |-> relevant, totalTokens |-> totalTokens]
  ELSE IF totalTokens + tokensOf[ranked[i].content] <= maxTokens
       THEN selectFrom(ranked, i + 1, Append(relevant, ranked[i].id),
                       totalTokens + tokensOf[ranked[i].content], maxTokens)
       ELSE selectFrom(ranked, i + 1, relevant, totalTokens, maxTokens)

selectChunks(chunks, query, maxTokens, t) ==
  selectFrom(rankedChunks(chunks, query, t), 1, <<>>, 0, maxTokens)

SeqRange(s) == {s[i] : i \in 1..Len(s)}

\* a bug: the access count is left as it was
touchWithoutCount(chunk, t) == [chunk EXCEPT !.lastAccessed = t]

\* a bug: a selected chunk is also made more important
touchBoosting(chunk, t) ==
  [chunk EXCEPT !.accessCount = chunk.accessCount + 1, !.lastAccessed = t,
                !.importance = Min(chunk.importance + 100, 1000)]

\* the access statistics update of the selected chunks
touch(chunk, t) ==
  [chunk EXCEPT !.accessCount = chunk.accessCount + 1, !.lastAccessed = t]

RECURSIVE touchAll(_, _, _)
touchAll(chunks, ids, t) ==
  IF chunks = <<>> THEN <<>>
  ELSE <<IF Head(chunks).id \in ids THEN touch(Head(chunks), t) ELSE Head(chunks)>>
         \o touchAll(Tail(chunks), ids, t)

ChunkOf(chunks, id) == chunks[CHOOSE i \in 1..Len(chunks) : chunks[i].id = id]

RECURSIVE chunksOf(_, _)
chunksOf(chunks, ids) ==
  IF ids = <<>> THEN <<>> ELSE <<ChunkOf(chunks, Head(ids))>> \o chunksOf(chunks, Tail(ids))

RECURSIVE SumTokens(_)
SumTokens(chunks) ==
  IF chunks = <<>> THEN 0 ELSE tokensOf[Head(chunks).content] + SumTokens(Tail(chunks))

-----------------------------------------------------------------------------
(* The state machine of MemoryManager *)

\* a persisted record without its metadata
MalformedRecord ==
  [id |-> "s-0", content |-> TextOk, importance |-> 500, accessCount |-> 0,
   lastAccessed |-> toISOString(0)]

\* what localStorage may hold when the manager is constructed
InitialDisks ==
  {Data(<<stringifyChunk(newChunk(NewMessage("1", "user", TextLatestNews, 0, 0), SessionId, 0)),
          MalformedRecord,
          stringifyChunk(newChunk(NewMessage("3", "assistant", TextNewsToday, 1, 0), SessionId, 0))>>)}

Init ==
  /\ ramChunks = <<>>
  /\ disk \in InitialDisks
  /\ saveTimer = TRUE
  /\ trimQueue = <<>>
  /\ now = 0
  /\ last = [op |-> "constructor"]
  /\ savedChunks = NoData
  /\ items = <<>>
  /\ chatHistory = <<>>
  /\ pinnedItems = <<>>
  /\ nextId = 0
  /\ mcpLast = [op |-> "constructor"]
  /\ isLoading = FALSE
  /\ abortController = "null"
  /\ turn = [phase |-> "idle", user |-> "none", stopped |-> FALSE]
  /\ aborted = FALSE
  /\ orphanTimers = 0

\* no trimRamChunks is suspended at its await
Idle == trimQueue = <<>>

\* the component is mounted, its mount effect has run loadSession, and no call is
\* in progress
Ready == Idle /\ saveTimer /\ last.op # "constructor"

HotIds == Ids(ramChunks)
DiskIds == Ids(disk.records)

\* addMessages up to the await in trimRamChunks: the chunks are set, the chunks to
\* remove are chosen and handed to saveToDisk (ok: localStorage.setItem succeeds)
AddMessagesCall(messages, ok) ==
  LET inserted == setAll(ramChunks, messages, SessionId, now)
      toRemove == chunksToRemove(inserted, now)
  IN  /\ (toRemove = <<>>) => ok
      /\ ramChunks' = inserted
      /\ disk' = IF toRemove # <<>> THEN saveToDisk(toRemove, ok, disk) ELSE disk
      /\ trimQueue' = Append(trimQueue,
                             [remove |-> Ids(toRemove), saved |-> toRemove # <<>>, ok |-> ok,
                              size |-> Len(inserted), overlapped |-> trimQueue # <<>>])
      /\ savedChunks' = IF toRemove # <<>> /\ ok THEN Data(toRemove) ELSE savedChunks
      /\ last' = [op |-> "addMessages.await", saved |-> toRemove # <<>>, ok |-> ok]
      /\ UNCHANGED <<saveTimer, now>>

\* the rest of trimRamChunks, after the await: the chosen chunks are deleted, and
\* addMessages returns
AddMessagesReturn ==
  /\ trimQueue # <<>>
  /\ ramChunks' = mapDelete(ramChunks, Head(trimQueue).remove)
  /\ trimQueue' = Tail(trimQueue)
  /\ last' = [op |-> "addMessages", selected |-> Head(trimQueue).remove,
              saved |-> Head(trimQueue).saved, ok |-> Head(trimQueue).ok]
  /\ UNCHANGED <<disk, saveTimer, now, savedChunks>>

\* getRelevantContext(query, maxTokens)
GetRelevantContext(query, maxTokens) ==
  LET selected == selectChunks(ramChunks, query, maxTokens, now)
      touched == touchAll(ramChunks, SeqRange(selected.ids), now)
  IN  /\ \A i \in 1..Len(ramChunks) : ramChunks[i].accessCount < MaxAccess
      /\ ramChunks' = touched
      /\ last' = [op |-> "getRelevantContext", query |-> query, maxTokens |-> maxTokens,
                  chunks |-> chunksOf(touched, selected.ids),
                  totalTokens |-> selected.totalTokens,
                  stored |-> Len(ramChunks)]
      /\ UNCHANGED <<disk, saveTimer, trimQueue, now, savedChunks>>

\* a bug: a failed save clears the interval
AutoSaveStopsOnFailure(ok) ==
  /\ saveTimer
  /\ disk' = saveToDisk(ramChunks, ok, disk)
  /\ savedChunks' = IF ok THEN Data(ramChunks) ELSE savedChunks
  /\ saveTimer' = ok
  /\ last' = [op |-> "autosave", ok |-> ok]
  /\ UNCHANGED <<ramChunks, trimQueue, now>>

\* the setInterval callback of startAutoSave
AutoSave(ok) ==
  /\ saveTimer
  /\ disk' = saveToDisk(ramChunks, ok, disk)
  /\ savedChunks' = IF ok THEN Data(ramChunks) ELSE savedChunks
  /\ last' = [op |-> "autosave", ok |-> ok]
  /\ UNCHANGED <<ramChunks, saveTimer, trimQueue, now>>

\* ChatInterface.loadSession, run once by the mount effect: loadFromDisk()
LoadSession ==
  /\ last.op = "constructor"
  /\ ramChunks' = loadFromDisk(ramChunks, disk)
  /\ last' = [op |-> "loadFromDisk", wasEmpty |-> (ramChunks = <<>>)]
  /\ UNCHANGED <<disk, saveTimer, trimQueue, now, savedChunks>>

\* clear()
Clear ==
  /\ ramChunks' = <<>>
  /\ disk' = NoData
  /\ savedChunks' = NoData
  /\ last' = [op |-> "clear"]
  /\ UNCHANGED <<saveTimer, trimQueue, now>>

\* destroy()
Destroy ==
  /\ saveTimer
  /\ saveTimer' = FALSE
  /\ last' = [op |-> "destroy"]
  /\ UNCHANGED <<ramChunks, disk, trimQueue, now, savedChunks>>

\* the constructor, run again after a destroy: a restart with an empty hot cache
Constructor ==
  /\ ~saveTimer
  /\ ramChunks' = <<>>
  /\ saveTimer' = TRUE
  /\ last' = [op |-> "constructor"]
  /\ UNCHANGED <<disk, trimQueue, now, savedChunks>>

\* a day passes
Tick ==
  /\ now < MaxTime
  /\ now' = now + 1
  /\ UNCHANGED <<ramChunks, disk, saveTimer, trimQueue, last, savedChunks>>

\* Calls are made one at a time: a call starts when none is suspended.
Next ==
  \/ \E messages \in Batches, ok \in BOOLEAN :
       Ready /\ AddMessagesCall(messages, ok) /\ UNCHANGED <<mcpVars, chatVars>>
  \/ AddMessagesReturn /\ UNCHANGED <<mcpVars, chatVars>>
  \/ \E query \in Queries, maxTokens \in Budgets :
       Ready /\ GetRelevantContext(query, maxTokens) /\ UNCHANGED <<mcpVars, chatVars>>
  \/ \E ok \in BOOLEAN : Ready /\ AutoSave(ok) /\ UNCHANGED <<mcpVars, chatVars>>
  \/ Idle /\ saveTimer /\ LoadSession /\ UNCHANGED <<mcpVars, chatVars>>
  \/ Ready /\ Clear /\ UNCHANGED <<mcpVars, chatVars>>
  \/ Ready /\ Destroy /\ UNCHANGED <<mcpVars, chatVars>>
  \/ Idle /\ Constructor /\ UNCHANGED <<mcpVars, chatVars>>
  \/ Ready /\ Tick /\ UNCHANGED <<mcpVars, chatVars>>

Spec == Init /\ [][Next]_vars

\* a session whose durable storage holds the same text twice: once as the user
\* wrote it, once as an assistant repeated it with other case and spacing
RepeatedDisks ==
  {Data(<<stringifyChunk(newChunk(NewMessage("1", "user", TextLatestNews, 0, 0), SessionId, 0)),
          stringifyChunk(newChunk(NewMessage("4", "assistant", TextLatestNewsAgain, 0, 0),
                                  SessionId, 0))>>)}

InitRepeated ==
  /\ ramChunks = <<>>
  /\ disk \in RepeatedDisks
  /\ saveTimer = TRUE
  /\ trimQueue = <<>>
  /\ now = 0
  /\ last = [op |-> "constructor"]
  /\ savedChunks = NoData
  /\ items = <<>>
  /\ chatHistory = <<>>
  /\ pinnedItems = <<>>
  /\ nextId = 0
  /\ mcpLast = [op |-> "constructor"]
  /\ isLoading = FALSE
  /\ abortController = "null"
  /\ turn = [phase |-> "idle", user |-> "none", stopped |-> FALSE]
  /\ aborted = FALSE
  /\ orphanTimers = 0

SpecRepeated == InitRepeated /\ [][Next]_vars

-----------------------------------------------------------------------------
(* Calls that overlap: a caller that does not await addMessages *)

\* the addMessages calls that may be suspended at the await of trimRamChunks
MaxPending == 2

\* addMessages runs up to its await while earlier calls are suspended there;
\* getRelevantContext has no await and runs whole between them; the suspended
\* calls resume in the order of their awaits.
NextOverlap ==
  \/ Idle /\ saveTimer /\ LoadSession /\ UNCHANGED <<mcpVars, chatVars>>
  \/ \E messages \in Batches, ok \in BOOLEAN :
       /\ saveTimer /\ last.op # "constructor" /\ Len(trimQueue) < MaxPending
       /\ AddMessagesCall(messages, ok)
       /\ UNCHANGED <<mcpVars, chatVars>>
  \/ AddMessagesReturn /\ UNCHANGED <<mcpVars, chatVars>>
  \/ \E query \in Queries, maxTokens \in Budgets :
       /\ saveTimer /\ last.op # "constructor"
       /\ GetRelevantContext(query, maxTokens)
       /\ UNCHANGED <<mcpVars, chatVars>>
  \/ Ready /\ Tick /\ UNCHANGED <<mcpVars, chatVars>>

SpecOverlap == Init /\ [][NextOverlap]_vars

-----------------------------------------------------------------------------
(* A store restored from what earlier sessions persisted *)

\* the days between the earlier sessions and this one
DaysAway == 9

\* the records earlier sessions may have persisted: chunks of the messages, created
\* on the first or on the second day
StoredRecords ==
  {stringifyChunk(newChunk(message, SessionId, t)) : message \in Messages, t \in 0..1}

\* the persisted arrays: up to maxRamChunks + 1 records of distinct ids
StoredDisks ==
  {Data(records) :
     records \in {r \in SeqsUpTo(StoredRecords, maxRamChunks + 1) :
                    \A i, j \in 1..Len(r) : i # j => r[i].id # r[j].id}}

InitStored ==
  /\ ramChunks = <<>>
  /\ disk \in StoredDisks
  /\ saveTimer = TRUE
  /\ trimQueue = <<>>
  /\ now = DaysAway
  /\ last = [op |-> "constructor"]
  /\ savedChunks = NoData
  /\ items = <<>>
  /\ chatHistory = <<>>
  /\ pinnedItems = <<>>
  /\ nextId = 0
  /\ mcpLast = [op |-> "constructor"]
  /\ isLoading = FALSE
  /\ abortController = "null"
  /\ turn = [phase |-> "idle", user |-> "none", stopped |-> FALSE]
  /\ aborted = FALSE
  /\ orphanTimers = 0

NextStored ==
  \/ Idle /\ saveTimer /\ LoadSession /\ UNCHANGED <<mcpVars, chatVars>>
  \/ \E query \in StoredQueries, maxTokens \in Budgets :
       Ready /\ GetRelevantContext(query, maxTokens) /\ UNCHANGED <<mcpVars, chatVars>>

SpecStored == InitStored /\ [][NextStored]_vars

-----------------------------------------------------------------------------
(* ChatInterface: handleSend and handleStop over the MemoryManager *)

\* what the user may send, and what the model may answer
UserMessages ==
  {NewMessage("1", "user", TextLatestNews, 0, 0), NewMessage("5", "user", TextLatest, 0, 0)}

AssistantMessages ==
  {NewMessage("2", "assistant", TextEmpty, 0, 0), NewMessage("6", "assistant", TextNewsToday, 0, 0)}

\* handleSend up to the await of addMessages([userMessage], sessionId)
HandleSend(userMessage, ok) ==
  /\ ~isLoading
  /\ turn.phase = "idle"
  /\ isLoading' = TRUE
  /\ AddMessagesCall(<<userMessage>>, ok)
  /\ turn' = [phase |-> "adding", user |-> userMessage.id, stopped |-> FALSE]
  /\ UNCHANGED <<abortController, aborted, orphanTimers>>

\* addMessages returns to handleSend, or to the onComplete callback
HandleSendResume ==
  /\ turn.phase \in {"adding", "completing"}
  /\ AddMessagesReturn
  /\ turn' = [turn EXCEPT !.phase = IF turn.phase = "adding" THEN "added" ELSE "idle"]
  /\ isLoading' = IF turn.phase = "completing" THEN FALSE ELSE isLoading
  /\ UNCHANGED <<abortController, aborted, orphanTimers>>

\* handleSend from getRelevantContext(input, 1500) to the fetch of
\* OllamaService.chat, which installs a new AbortController
HandleSendChat ==
  /\ turn.phase = "added"
  /\ \E userMessage \in UserMessages :
       /\ userMessage.id = turn.user
       /\ GetRelevantContext(userMessage.content, 1500)
  /\ abortController' = "set"
  /\ turn' = [turn EXCEPT !.phase = "inflight"]
  /\ UNCHANGED <<isLoading, aborted, orphanTimers>>

\* the stream ends: chat calls onComplete, which runs up to the await of
\* addMessages([assistantMessage], sessionId)
OnComplete(assistantMessage, ok) ==
  /\ turn.phase = "inflight"
  /\ AddMessagesCall(<<assistantMessage>>, ok)
  /\ turn' = [turn EXCEPT !.phase = "completing"]
  /\ UNCHANGED <<isLoading, abortController, aborted, orphanTimers>>

\* a bug: stopping takes the turn's user chunk back out of the store
HandleStopRollingBack ==
  /\ abortController' = "null"
  /\ isLoading' = FALSE
  /\ aborted' = (aborted \/ (abortController = "set" /\ turn.phase = "inflight"))
  /\ turn' = IF abortController = "set" /\ turn.phase = "inflight"
             THEN [turn EXCEPT !.phase = "idle"]
             ELSE [turn EXCEPT !.stopped = (turn.stopped \/ turn.phase \in {"adding", "added"})]
  /\ ramChunks' = mapDelete(ramChunks, {SessionId \o "-" \o turn.user})
  /\ UNCHANGED <<disk, saveTimer, trimQueue, now, last, savedChunks, orphanTimers>>

\* handleStop: OllamaService.abort() and setIsLoading(false); an in-flight fetch
\* rejects with AbortError, chat returns without calling onComplete. Before chat
\* has installed its AbortController abort() finds null, or the controller of an
\* earlier request: handleSend is not told and goes on (turn.stopped records it).
HandleStop ==
  /\ abortController' = "null"
  /\ isLoading' = FALSE
  /\ aborted' = (aborted \/ (abortController = "set" /\ turn.phase = "inflight"))
  /\ turn' = IF abortController = "set" /\ turn.phase = "inflight"
             THEN [turn EXCEPT !.phase = "idle"]
             ELSE [turn EXCEPT !.stopped = (turn.stopped \/ turn.phase \in {"adding", "added"})]
  /\ UNCHANGED <<mmVars, orphanTimers>>

\* One handleSend is in progress at a time; the button calls handleStop while
\* isLoading is set.
NextChat ==
  \/ Idle /\ saveTimer /\ LoadSession /\ UNCHANGED <<mcpVars, chatVars>>
  \/ \E userMessage \in UserMessages, ok \in BOOLEAN :
       Ready /\ HandleSend(userMessage, ok) /\ UNCHANGED mcpVars
  \/ HandleSendResume /\ UNCHANGED mcpVars
  \/ Ready /\ HandleSendChat /\ UNCHANGED mcpVars
  \/ \E assistantMessage \in AssistantMessages, ok \in BOOLEAN :
       Idle /\ OnComplete(assistantMessage, ok) /\ UNCHANGED mcpVars
  \/ last.op # "constructor" /\ isLoading /\ HandleStop /\ UNCHANGED mcpVars
  \/ \E ok \in BOOLEAN : Ready /\ AutoSave(ok) /\ UNCHANGED <<mcpVars, chatVars>>
  \/ Ready /\ Tick /\ UNCHANGED <<mcpVars, chatVars>>

SpecChat == Init /\ [][NextChat]_vars

-----------------------------------------------------------------------------
(* ChatInterface: the MemoryManager objects its renders construct *)

\* the re-renders of one mounted component
MaxRenders == 2

\* a re-render (any state update causes one): `useRef(new MemoryManager())`
\* evaluates its argument again, the constructor starts an autosave timer over an
\* empty ramChunks, and useRef keeps the object of the first render
Render ==
  /\ saveTimer
  /\ orphanTimers < MaxRenders
  /\ orphanTimers' = orphanTimers + 1
  /\ UNCHANGED <<mmVars, mcpVars, isLoading, abortController, turn, aborted>>

\* the setInterval callback of an object a re-render constructed: its ramChunks
\* is empty, and it writes the same key
OrphanAutoSave(ok) ==
  /\ orphanTimers > 0
  /\ disk' = saveToDisk(<<>>, ok, disk)
  /\ savedChunks' = IF ok THEN Data(<<>>) ELSE savedChunks
  /\ UNCHANGED <<ramChunks, saveTimer, trimQueue, now, last, mcpVars, chatVars>>

\* the cleanup of the mount effect: memoryManager.current.destroy()
Unmount == Ready /\ Destroy /\ UNCHANGED <<mcpVars, chatVars>>

NextRender ==
  \/ Idle /\ saveTimer /\ LoadSession /\ UNCHANGED <<mcpVars, chatVars>>
  \/ \E messages \in Batches, ok \in BOOLEAN :
       Ready /\ AddMessagesCall(messages, ok) /\ UNCHANGED <<mcpVars, chatVars>>
  \/ AddMessagesReturn /\ UNCHANGED <<mcpVars, chatVars>>
  \/ \E ok \in BOOLEAN : Ready /\ AutoSave(ok) /\ UNCHANGED <<mcpVars, chatVars>>
  \/ Render
  \/ \E ok \in BOOLEAN : OrphanAutoSave(ok)
  \/ Unmount

SpecRender == Init /\ [][NextRender]_vars

-----------------------------------------------------------------------------
(* MemoryContextProcessor *)

\* the items a caller may hand to addContext: metadata.pinned may already be set
ItemInputs == {[type |-> "chat", content |-> TextOk, pinned |-> p] : p \in BOOLEAN}

\* generateId: ids are distinct
generateId(n) == n + 1

\* Array.prototype.slice(start), by the start index the code passes
slice(s, start) ==
  LET from == IF start < 0
              THEN (IF Len(s) + start < 0 THEN 0 ELSE Len(s) + start)
              ELSE (IF start > Len(s) THEN Len(s) ELSE start)
  IN  SubSeq(s, from + 1, Len(s))

\* pruneContext: the chatHistory it leaves
pruneContext(history, pinned) ==
  IF Len(history) > maxContextItems
  THEN LET nonPinned == SelectSeq(history, LAMBDA id : id \notin SeqRange(pinned))
           toKeep == maxContextItems - Len(pinned)
       IN  IF Len(nonPinned) > maxContextItems - Len(pinned)
           THEN pinned \o slice(nonPinned, 0 - toKeep)
           ELSE history
  ELSE history

\* findContextItem: the item with the id in chatHistory, else in pinnedItems
findContextItem(history, pinned, itemId) ==
  itemId \in SeqRange(history) \cup SeqRange(pinned)

\* addContext(item)
AddContext(item) ==
  LET id == generateId(nextId)
      pruned == pruneContext(Append(chatHistory, id), pinnedItems)
  IN  /\ nextId < MaxItems
      /\ nextId' = id
      /\ chatHistory' = pruned
      /\ items' = [i \in SeqRange(pruned) \cup SeqRange(pinnedItems) |->
                     IF i = id THEN item ELSE items[i]]
      /\ mcpLast' = [op |-> "addContext", returned |-> id]
      /\ UNCHANGED pinnedItems

\* a bug: the early return for an unknown id reports success
TogglePinAlwaysTrue(itemId) ==
  IF ~findContextItem(chatHistory, pinnedItems, itemId)
  THEN /\ mcpLast' = [op |-> "togglePin", id |-> itemId, returned |-> TRUE]
       /\ UNCHANGED <<items, chatHistory, pinnedItems, nextId>>
  ELSE /\ items' = [items EXCEPT ![itemId].pinned = ~items[itemId].pinned]
       /\ pinnedItems' = IF items[itemId].pinned
                         THEN SelectSeq(pinnedItems, LAMBDA p : p # itemId)
                         ELSE Append(pinnedItems, itemId)
       /\ mcpLast' = [op |-> "togglePin", id |-> itemId, returned |-> TRUE]
       /\ UNCHANGED <<chatHistory, nextId>>

\* togglePin(itemId)
TogglePin(itemId) ==
  IF ~findContextItem(chatHistory, pinnedItems, itemId)
  THEN /\ mcpLast' = [op |-> "togglePin", id |-> itemId, returned |-> FALSE]
       /\ UNCHANGED <<items, chatHistory, pinnedItems, nextId>>
  ELSE /\ items' = [items EXCEPT ![itemId].pinned = ~items[itemId].pinned]
       /\ pinnedItems' = IF items[itemId].pinned
                         THEN SelectSeq(pinnedItems, LAMBDA p : p # itemId)
                         ELSE Append(pinnedItems, itemId)
       /\ mcpLast' = [op |-> "togglePin", id |-> itemId, returned |-> TRUE]
       /\ UNCHANGED <<chatHistory, nextId>>

\* clearContext()
ClearContext ==
  /\ items' = <<>>
  /\ chatHistory' = <<>>
  /\ pinnedItems' = <<>>
  /\ mcpLast' = [op |-> "clearContext"]
  /\ UNCHANGED nextId

\* private maxTokenLimit = 4000
maxTokenLimit == 4000

\* the texts of the item types
TypeText == [chat |-> <<"c", "h", "a", "t">>]

LowerToUpper ==
  [a |-> "A", b |-> "B", c |-> "C", d |-> "D", e |-> "E", f |-> "F", g |-> "G",
   h |-> "H", i |-> "I", j |-> "J", k |-> "K", l |-> "L", m |-> "M", n |-> "N",
   o |-> "O", p |-> "P", q |-> "Q", r |-> "R", s |-> "S", t |-> "T", u |-> "U",
   v |-> "V", w |-> "W", x |-> "X", y |-> "Y", z |-> "Z"]

\* String.prototype.toUpperCase
RECURSIVE toUpperCase(_)
toUpperCase(text) ==
  IF text = <<>> THEN <<>>
  ELSE <<IF Head(text) \in DOMAIN LowerToUpper THEN LowerToUpper[Head(text)] ELSE Head(text)>>
         \o toUpperCase(Tail(text))

PinnedHeader ==
  <<"#", "#", " ", "P", "i", "n", "n", "e", "d", " ", "C", "o", "n", "t", "e", "x",
    "t">>

RelevantHeader ==
  <<"#", "#", " ", "R", "e", "l", "e", "v", "a", "n", "t", " ", "C", "o", "n", "t",
    "e", "x", "t">>

TruncationMark ==
  <<"\n", "\n", "[", ".", ".", ".", " ", "c", "o", "n", "t", "e", "x", "t", " ", "t",
    "r", "u", "n", "c", "a", "t", "e", "d", " ", ".", ".", ".", "]">>

\* the template literal [TYPE] content of one item
itemLine(item) == <<"[">> \o toUpperCase(TypeText[item.type]) \o <<"]", " ">> \o item.content

RECURSIVE itemLines(_, _)
itemLines(store, ids) ==
  IF ids = <<>> THEN <<>> ELSE <<itemLine(store[Head(ids)])>> \o itemLines(store, Tail(ids))

\* Array.prototype.join with the separator of buildPromptContext
RECURSIVE join(_)
join(parts) ==
  IF parts = <<>> THEN <<>>
  ELSE IF Len(parts) = 1 THEN Head(parts)
  ELSE Head(parts) \o <<"\n", "\n">> \o join(Tail(parts))

\* String.prototype.substring(0, end)
substring(text, end) ==
  SubSeq(text, 1, IF end < 0 THEN 0 ELSE IF end > Len(text) THEN Len(text) ELSE end)

\* truncateToTokenLimit: content.length / 4 <= maxTokens keeps the content
truncateToTokenLimit(content, maxTokens) ==
  IF Len(content) <= 4 * maxTokens THEN content
  ELSE substring(content, maxTokens * 4) \o TruncationMark

\* the relevanceScore addContext gave every item (1.0), in thousandths
RECURSIVE relevanceScoresOf(_)
relevanceScoresOf(ids) ==
  IF ids = <<>> THEN <<>> ELSE <<1000>> \o relevanceScoresOf(Tail(ids))

\* findRelevantContext with the default options: the items of chatHistory whose
\* content includes the query, by descending relevanceScore, the first 10
findRelevantContext(store, history, query) ==
  LET matching == SelectSeq(history,
                    LAMBDA id : includes(toLowerCase(store[id].content), toLowerCase(query)))
      sorted == sortDescending(matching, relevanceScoresOf(matching))
  IN  SubSeq(sorted, 1, Min(10, Len(sorted)))

\* buildPromptContext(query, {maxTokens}): the text it returns
buildPromptContext(store, history, pinned, query, maxTokens) ==
  LET relevantItems == findRelevantContext(store, history, query)
      contextParts ==
        (IF Len(pinned) > 0 THEN <<PinnedHeader>> \o itemLines(store, pinned) ELSE <<>>)
          \o (IF Len(relevantItems) > 0
              THEN <<RelevantHeader>> \o itemLines(store, relevantItems) ELSE <<>>)
  IN  truncateToTokenLimit(join(contextParts), maxTokens)

\* the queries and token limits given to buildPromptContext
PromptQueries == {TextOk, TextLatest}
PromptBudgets == {5, maxTokenLimit}

BuildPromptContext(query, maxTokens) ==
  /\ mcpLast' = [op |-> "buildPromptContext", query |-> query, maxTokens |-> maxTokens,
                 returned |-> buildPromptContext(items, chatHistory, pinnedItems,
                                                 query, maxTokens)]
  /\ UNCHANGED <<items, chatHistory, pinnedItems, nextId>>

NextMCP ==
  \/ \E item \in ItemInputs : AddContext(item) /\ UNCHANGED <<mmVars, chatVars>>
  \/ \E itemId \in 1..(nextId + 1) : TogglePin(itemId) /\ UNCHANGED <<mmVars, chatVars>>
  \/ ClearContext /\ UNCHANGED <<mmVars, chatVars>>
  \/ \E query \in PromptQueries, maxTokens \in PromptBudgets :
       BuildPromptContext(query, maxTokens) /\ UNCHANGED <<mmVars, chatVars>>

SpecMCP == Init /\ [][NextMCP]_vars

-----------------------------------------------------------------------------
(* Properties of MemoryManager *)

\* the id, content and importance of each chunk of a sequence
Essence(chunks) ==
  {[id |-> chunks[i].id, content |-> chunks[i].content, importance |-> chunks[i].importance] :
     i \in 1..Len(chunks)}

WellFormedIds(records) ==
  {records[i].id : i \in {k \in 1..Len(records) : "metadata" \in DOMAIN records[k]}}

\* C1: whenever an addMessages call has returned, the hot cache holds at most
\* maxRamChunks chunks.
C1_HotCacheWithinCeiling ==
  last.op = "addMessages" => Len(ramChunks) <= maxRamChunks

\* C1 witness: an addMessages call has returned whose trim evicted chunks
C1_Witness ==
  last.op = "addMessages" /\ last.selected # {} /\ Len(ramChunks) = maxRamChunks

\* C3 as stated: for every query and every token budget the estimated tokens of the
\* returned chunks sum to at most the budget, and totalTokens is that sum.
C3_Original ==
  last.op = "getRelevantContext" =>
    /\ SumTokens(last.chunks) <= last.maxTokens
    /\ last.totalTokens = SumTokens(last.chunks)

\* C3 amended: totalTokens is the sum of the estimated tokens of the returned chunks;
\* for a budget of 0 or more that sum is at most the budget, and for a negative
\* budget nothing is returned (the sum, 0, is above the budget).
C3_TokensWithinBudget ==
  last.op = "getRelevantContext" =>
    /\ last.totalTokens = SumTokens(last.chunks)
    /\ last.maxTokens >= 0 => SumTokens(last.chunks) <= last.maxTokens
    /\ last.maxTokens < 0 => last.chunks = <<>>

\* C3 witness: a call whose budget let some chunks in and kept others out
C3_Witness ==
  /\ last.op = "getRelevantContext"
  /\ last.maxTokens = 3
  /\ last.chunks # <<>>
  /\ last.totalTokens = 3
  /\ Len(last.chunks) < last.stored

\* C4: a successful save of this store never loses a chunk: once durable storage
\* holds what a save wrote, every id in the hot cache or in durable storage before
\* a successful save (an autosave, or a trim's save and removal) is in one of them
\* after it.
C4_SaveMergesNothingLost ==
  [][(/\ savedChunks.present
      /\ last'.op \in {"autosave", "addMessages.await", "addMessages"}
      /\ last'.ok)
     => (HotIds \cup DiskIds) \subseteq (HotIds' \cup DiskIds')]_vars

\* C5: when the save of a trim fails, the chunks selected for eviction stay in the
\* hot cache.
C5_EvictionFailSafe ==
  (last.op = "addMessages" /\ last.saved /\ ~last.ok) => last.selected \subseteq HotIds

\* C6 as stated: no chunk id is both in the hot cache and in durable storage.
C6_Original == HotIds \cap DiskIds = {}

\* C6 amended: when an addMessages call whose trim evicted chunks and saved them
\* successfully has returned, durable storage holds exactly the evicted chunks and
\* none of them is in the hot cache.
C6_EvictedOnlyInColdStorage ==
  (last.op = "addMessages" /\ last.saved /\ last.ok) =>
    /\ DiskIds = last.selected
    /\ HotIds \cap DiskIds = {}

\* C6 witness: an eviction that was saved
C6_Witness ==
  last.op = "addMessages" /\ last.saved /\ last.ok /\ last.selected # {} /\ HotIds # {}

\* C7: after destroy every chunk of the hot cache is in durable storage.
C7_DestroyFlushes ==
  last.op = "destroy" => Essence(ramChunks) \subseteq Essence(disk.records)

\* C8: after loadFromDisk every well-formed record of the persisted array is in the
\* store, whether it comes before or after a malformed one.
C8_MalformedRecordSkipped ==
  last.op = "loadFromDisk" => WellFormedIds(disk.records) \subseteq HotIds

\* C9: loading into an empty store what a successful saveToDisk wrote reproduces
\* the saved chunks: the same ids, each with equal content and importance.
C9_RoundTrip ==
  (last.op = "loadFromDisk" /\ last.wasEmpty /\ savedChunks.present) =>
    Essence(ramChunks) = Essence(savedChunks.records)

\* C9 witness: a restart loaded two saved chunks
C9_Witness ==
  /\ last.op = "loadFromDisk"
  /\ last.wasEmpty
  /\ savedChunks.present
  /\ Len(savedChunks.records) >= 2
  /\ Len(ramChunks) >= 2

ImportancesOf(chunks, data, id) ==
  {chunks[i].importance : i \in {k \in 1..Len(chunks) : chunks[k].id = id}}
    \cup {data.records[i].importance :
            i \in {k \in 1..Len(data.records) : data.records[k].id = id}}

\* a text longer than 500 characters
TextLong == [i \in 1..501 |-> "x"]

\* every shape of message: role, citations, files, short or long content
MessageShapes ==
  {NewMessage("m", role, content, citations, files) :
     role \in {"user", "assistant", "system"}, content \in {TextEmpty, TextOk, TextLong},
     citations \in 0..1, files \in 0..1}

\* C11: every chunk of the store has an importance in [0, 1] (0..1000 thousandths),
\* as has the chunk of every shape of message, and no step changes the importance
\* held for an id, except an addMessages call that creates the chunk of that id
\* again.
C11_ImportanceStatic ==
  [][/\ \A message \in MessageShapes : calculateImportance(message) \in 0..1000
     /\ \A i \in 1..Len(ramChunks') : ramChunks'[i].importance \in 0..1000
     /\ \A i \in 1..Len(disk'.records) : disk'.records[i].importance \in 0..1000
     /\ \A id \in (HotIds \cup DiskIds) \cap (Ids(ramChunks') \cup Ids(disk'.records)) :
          \/ ImportancesOf(ramChunks', disk', id) \subseteq ImportancesOf(ramChunks, disk, id)
          \/ \E messages \in Batches, ok \in BOOLEAN :
               /\ AddMessagesCall(messages, ok)
               /\ id \in Ids(setAll(<<>>, messages, SessionId, now))]_vars

\* C11 witness: chunks of different importance have been selected by
\* getRelevantContext, after a save wrote durable storage
C11_Witness ==
  /\ last.op = "getRelevantContext"
  /\ savedChunks.present
  /\ \E i, j \in 1..Len(last.chunks) : last.chunks[i].importance < last.chunks[j].importance

\* C14: an autosave whose save fails leaves the hot cache and durable storage as
\* they were and the interval running, so that the next tick saves again; an
\* autosave whose save succeeds, after a failed one or not, writes the hot chunks
\* of that moment.
C14_FailedAutoSaveRetried ==
  [][last'.op = "autosave" =>
       /\ ramChunks' = ramChunks
       /\ saveTimer'
       /\ trimQueue' = <<>>
       /\ ~last'.ok => disk' = disk
       /\ last'.ok => disk' = Data(stringify(ramChunks'))]_vars

\* C14 witness: an autosave has failed while the hot cache holds chunks that
\* durable storage does not hold, and the interval is still running
C14_Witness ==
  /\ last.op = "autosave"
  /\ ~last.ok
  /\ saveTimer
  /\ ramChunks # <<>>
  /\ ~(HotIds \subseteq DiskIds)

\* the ids of the well-formed records of durable storage whose content matches a
\* keyword of the query
ColdMatches(query) ==
  {disk.records[i].id :
     i \in {k \in 1..Len(disk.records) :
              /\ "metadata" \in DOMAIN disk.records[k]
              /\ matchesOf[query][disk.records[k].content] > 0}}

\* C17: when getRelevantContext is called with a query that no hot chunk matches,
\* the chunks of durable storage that match it are in the hot cache when the call
\* returns.
C17_ColdStorageConsulted ==
  (/\ last.op = "getRelevantContext"
   /\ \A i \in 1..Len(ramChunks) : matchesOf[last.query][ramChunks[i].content] = 0)
  => ColdMatches(last.query) \subseteq HotIds

\* two contents are the same once lowercased and their whitespace collapsed
SameNormalizedContent(a, b) ==
  splitWhitespace(toLowerCase(a)) = splitWhitespace(toLowerCase(b))

\* C15: the context getRelevantContext returns holds at most one of two chunks
\* whose normalized content is identical.
C15_DuplicatesCollapsed ==
  last.op = "getRelevantContext" =>
    \A i, j \in 1..Len(last.chunks) :
      SameNormalizedContent(last.chunks[i].content, last.chunks[j].content) => i = j

\* Scenario A: maxRamChunks + 1 chunks of strictly increasing importance and
\* equal recency, in the order of their insertion
RECURSIVE ScenarioAFrom(_)
ScenarioAFrom(i) ==
  IF i > maxRamChunks + 1 THEN <<>>
  ELSE <<[newChunk(NewMessage(ToString(i), "assistant", TextEmpty, 0, 0), SessionId, 0)
            EXCEPT !.importance = 500 + 50 * i]>> \o ScenarioAFrom(i + 1)

ScenarioA == ScenarioAFrom(1)

\* C19: the trim of n > maxRamChunks resident chunks selects exactly
\* n - maxRamChunks of them (none when n <= maxRamChunks), every selected chunk has
\* a retention score at most that of every chunk it keeps, and the selected chunks
\* are out of the hot cache when addMessages returns; of maxRamChunks + 1 chunks of
\* strictly increasing importance and equal recency the least important is the one
\* selected.
C19_TrimRemovesLowest ==
  /\ last.op = "addMessages.await" =>
       LET remove == Head(trimQueue).remove
           n == Len(ramChunks)
       IN  /\ remove \subseteq HotIds
           /\ Cardinality(remove) = IF n > maxRamChunks THEN n - maxRamChunks ELSE 0
           /\ \A i, j \in 1..n :
                (ramChunks[i].id \in remove /\ ramChunks[j].id \notin remove)
                  => retentionScore(ramChunks[i], now) <= retentionScore(ramChunks[j], now)
  /\ last.op = "addMessages" => last.selected \cap HotIds = {}
  /\ Ids(chunksToRemove(ScenarioA, 0)) = {ScenarioA[1].id}

\* C19 witness: a trim is choosing between chunks of different retention scores
C19_Witness ==
  /\ last.op = "addMessages.await"
  /\ Head(trimQueue).remove # {}
  /\ \E i, j \in 1..Len(ramChunks) :
       /\ ramChunks[i].id \in Head(trimQueue).remove
       /\ ramChunks[j].id \notin Head(trimQueue).remove
       /\ i > j
       /\ retentionScore(ramChunks[i], now) < retentionScore(ramChunks[j], now)

\* C20: a getRelevantContext call adds 1 to accessCount and sets lastAccessed to
\* the time of the call on each chunk it returns, and changes nothing else: the
\* other chunks, every id, content, metadata and importance, and the membership
\* and order of the hot cache are as before.
C20_AccessStatisticsFrame ==
  [][(last' # last /\ last'.op = "getRelevantContext") =>
       /\ Len(ramChunks') = Len(ramChunks)
       /\ \A i \in 1..Len(ramChunks) :
            IF ramChunks[i].id \in Ids(last'.chunks)
            THEN ramChunks'[i] = [ramChunks[i] EXCEPT !.accessCount = ramChunks[i].accessCount + 1,
                                                     !.lastAccessed = now]
            ELSE ramChunks'[i] = ramChunks[i]
       /\ \A i \in 1..Len(last'.chunks) : last'.chunks[i] \in SeqRange(ramChunks')]_vars

\* C20 witness: a call has returned a chunk accessed a day after its creation, and
\* left another chunk out
C20_Witness ==
  /\ last.op = "getRelevantContext"
  /\ \E i \in 1..Len(last.chunks) :
       /\ last.chunks[i].accessCount = 1
       /\ last.chunks[i].lastAccessed = 1
  /\ \E i \in 1..Len(ramChunks) :
       /\ ramChunks[i].id \notin Ids(last.chunks)
       /\ ramChunks[i].accessCount = 0

\* C18: aborting the in-flight model request changes neither the hot cache nor
\* durable storage, so the turn's user chunk, in the store before the abort, is in
\* it unchanged after the abort; and the abort leaves isLoading false and no
\* handleSend in progress, so that the next message can be sent and ingested.
C18_AbortKeepsIngestedChunk ==
  [][(abortController = "set" /\ abortController' = "null") =>
       /\ ramChunks' = ramChunks
       /\ disk' = disk
       /\ trimQueue' = trimQueue
       /\ ~isLoading'
       /\ turn.phase = "inflight" => turn'.phase = "idle"]_vars

\* C18 witness: after a request was aborted, a later handleSend has ingested its
\* user message, and the chunk is in the hot cache
C18_Witness ==
  /\ aborted
  /\ turn.phase = "added"
  /\ (SessionId \o "-" \o turn.user) \in HotIds

\* C29: once handleStop has run during a turn that had not yet reached the model
\* request (memory ingestion, web search, context assembly), that turn starts no
\* model request and no reply of it is ingested.
C29_StoppedTurnStartsNoRequest ==
  turn.stopped => turn.phase \notin {"inflight", "completing"}

\* the autosave timers that are running
ActiveTimers == (IF saveTimer THEN 1 ELSE 0) + orphanTimers

\* C30: one autosave timer runs while the component is mounted and none after its
\* unmount (the cleanup that calls destroy), and what an autosave writes is the
\* hot chunks of the live store: it leaves durable storage holding them, or as it
\* was when localStorage rejects the write.
C30_OneTimerOneWriter ==
  [][/\ ActiveTimers' = (IF last'.op = "destroy" THEN 0 ELSE 1)
     /\ (\E ok \in BOOLEAN : AutoSave(ok) \/ OrphanAutoSave(ok))
          => disk' \in {disk, saveToDisk(ramChunks, TRUE, disk)}]_vars

\* C21: the chunks getRelevantContext returns are in descending order of the
\* relevance score they had when the call started, and of two with equal score the
\* one accessed more recently comes first.
C21_RankedBestFirst ==
  [][(last' # last /\ last'.op = "getRelevantContext") =>
       \A i, j \in 1..Len(last'.chunks) :
         i < j =>
           LET a == ChunkOf(ramChunks, last'.chunks[i].id)
               b == ChunkOf(ramChunks, last'.chunks[j].id)
               scoreA == calculateRelevance(last'.query, a, now)
               scoreB == calculateRelevance(last'.query, b, now)
           IN  \/ scoreA > scoreB
               \/ scoreA = scoreB /\ a.lastAccessed >= b.lastAccessed]_vars

\* the query terms longer than 3 characters, by position, and those of them that
\* occur in the content of a chunk or in one of its tags
LongTerms(query) ==
  LET terms == splitWhitespace(toLowerCase(query))
  IN  {i \in 1..Len(terms) : Len(terms[i]) > 3}

TermHits(query, chunk) ==
  LET terms == splitWhitespace(toLowerCase(query))
      tags == chunk.metadata.tags
  IN  {i \in LongTerms(query) :
         \/ includes(toLowerCase(chunk.content), terms[i])
         \/ \E k \in 1..Len(tags) : includes(toLowerCase(tags[k]), terms[i])}

\* C22: the keyword term of the relevance score, matches / words in
\* calculateRelevance, is the fraction of the query terms longer than 3 characters
\* that occur in the content or in a tag of the chunk.
C22_KeywordTermOverLongTerms ==
  (last.op = "getRelevantContext" /\ LongTerms(last.query) # {}) =>
    \A i \in 1..Len(ramChunks) :
      matchesOf[last.query][ramChunks[i].content] * Cardinality(LongTerms(last.query))
        = Cardinality(TermHits(last.query, ramChunks[i])) * wordsOf[last.query]

\* the estimated tokens of the returned chunks that are ranked before position k
TokensBefore(ranked, returned, k) ==
  SumTokens(SelectSeq(SubSeq(ranked, 1, k - 1), LAMBDA c : c.id \in returned))

\* C23: of the candidates in ranking order, getRelevantContext returns exactly
\* those whose estimated tokens fit in the budget that the returned candidates
\* before them leave, each with its whole content: one that does not fit is left
\* out and the candidates after it are still considered.
C23_WholeChunksThatFit ==
  [][(last' # last /\ last'.op = "getRelevantContext") =>
       LET ranked == rankedChunks(ramChunks, last'.query, now)
           returned == Ids(last'.chunks)
       IN  /\ \A k \in 1..Len(ranked) :
                ranked[k].id \in returned
                  <=> (TokensBefore(ranked, returned, k) + estimateTokens(ranked[k].content)
                         <= last'.maxTokens)
           /\ \A i \in 1..Len(last'.chunks) :
                last'.chunks[i].content = ChunkOf(ramChunks, last'.chunks[i].id).content]_vars

\* C23 witness: a call has left out a chunk that did not fit and returned a chunk
\* that was inserted after it and is less important
C23_Witness ==
  /\ last.op = "getRelevantContext"
  /\ \E i, j \in 1..Len(ramChunks) :
       /\ i < j
       /\ ramChunks[i].id \notin Ids(last.chunks)
       /\ ramChunks[j].id \in Ids(last.chunks)
       /\ ramChunks[i].importance > ramChunks[j].importance
       /\ ramChunks[i].lastAccessed = now
       /\ estimateTokens(ramChunks[i].content) > last.maxTokens

\* C24: after loadFromDisk, whatever array was persisted, the hot cache holds at
\* most maxRamChunks chunks.
C24_LoadWithinCeiling ==
  last.op = "loadFromDisk" => Len(ramChunks) <= maxRamChunks

\* C28: when the last of several overlapping addMessages calls returns, the hot
\* cache holds min(number of distinct ids ingested, maxRamChunks) chunks; the
\* distinct ids are the chunks that were resident when that call reached its await.
C28_OverlappingTrims ==
  [][(/\ trimQueue # <<>>
      /\ trimQueue' = <<>>
      /\ Head(trimQueue).overlapped)
     => Len(ramChunks') = Min(Head(trimQueue).size, maxRamChunks)]_vars

-----------------------------------------------------------------------------
(* Properties of MemoryContextProcessor *)

\* C2: automatic trimming never removes a pinned item: an item whose pinned flag
\* is set when addContext is called is still in chatHistory when the call returns.
C2_PinnedNeverTrimmed ==
  [][mcpLast'.op = "addContext" =>
       \A id \in SeqRange(chatHistory) : items[id].pinned => id \in SeqRange(chatHistory')]_vars

\* C12: togglePin on an existing item returns the item's new pinned state: true
\* when the call pinned it, false when the call unpinned it.
C12_TogglePinReturnsNewState ==
  (mcpLast.op = "togglePin" /\ mcpLast.id \in DOMAIN items) =>
    mcpLast.returned = items[mcpLast.id].pinned

\* C13: togglePin with an id that matches no stored item returns false and leaves
\* chatHistory, pinnedItems and every item's pinned flag unchanged.
C13_TogglePinUnknownId ==
  [][(/\ mcpLast'.op = "togglePin"
      /\ mcpLast'.id \notin SeqRange(chatHistory) \cup SeqRange(pinnedItems))
     => (/\ mcpLast'.returned = FALSE
         /\ UNCHANGED <<items, chatHistory, pinnedItems>>)]_vars

\* C13 witness: togglePin has returned false for an unknown id while items are
\* stored, one of them pinned
C13_Witness ==
  /\ mcpLast.op = "togglePin"
  /\ ~mcpLast.returned
  /\ mcpLast.id \notin DOMAIN items
  /\ chatHistory # <<>>
  /\ pinnedItems # <<>>

\* the section buildPromptContext opens with when items are pinned
PinnedSection == join(<<PinnedHeader>> \o itemLines(items, pinnedItems))

\* C16: the context buildPromptContext returns holds every pinned item whole,
\* before any non-pinned item, whatever the query and the token limit: it starts
\* with the pinned section.
C16_PinnedIncludedWhole ==
  (mcpLast.op = "buildPromptContext" /\ pinnedItems # <<>>) =>
    /\ Len(mcpLast.returned) >= Len(PinnedSection)
    /\ SubSeq(mcpLast.returned, 1, Len(PinnedSection)) = PinnedSection

\* the ids of chatHistory that are not in pinnedItems, in array order
NonPinned == SelectSeq(chatHistory, LAMBDA id : id \notin SeqRange(pinnedItems))

\* C25: an item's pinned flag is true if and only if the item is in pinnedItems,
\* and every item of pinnedItems is in chatHistory.
C25_PinnedFlagMatchesList ==
  /\ \A id \in DOMAIN items : items[id].pinned <=> id \in SeqRange(pinnedItems)
  /\ SeqRange(pinnedItems) \subseteq SeqRange(chatHistory)

\* C26: when addContext has returned, with p items pinned, chatHistory holds at
\* most max(0, maxContextItems - p) non-pinned items, they are in the order of
\* their addition, and the item just added is among them.
C26_NonPinnedWithinCeiling ==
  mcpLast.op = "addContext" =>
    /\ Len(NonPinned) <= (IF maxContextItems - Len(pinnedItems) > 0
                          THEN maxContextItems - Len(pinnedItems) ELSE 0)
    /\ \A i, j \in 1..Len(NonPinned) : i < j => NonPinned[i] < NonPinned[j]
    /\ mcpLast.returned \in SeqRange(NonPinned)

\* C27: the text buildPromptContext returns has an estimated token count
\* (length / 4) of at most the maxTokens it was given.
C27_PromptWithinTokenLimit ==
  mcpLast.op = "buildPromptContext" => Len(mcpLast.returned) <= 4 * mcpLast.maxTokens

====
